---- MODULE Spec2Model ----
(***************************************************************************)
(* A model of spaceotd.py: ImageViewer (the generic viewer) and            *)
(* APODViewer (the dated-source viewer built on it).                       *)
(*                                                                         *)
(* Spec   : APODViewer(api_key, preload).run(): the constructor (initial   *)
(*          fetch, pre_load), then the run loop update()/draw().           *)
(* SpecGV : a bare ImageViewer driven by direct calls of add_image,        *)
(*          shift_left and shift_right.                                    *)
(*                                                                         *)
(* A network fetch blocks the single thread; the model splits the code at  *)
(* that point only: one step issues the request, the next step is its      *)
(* return (a bitmap, or an exception raised out of APOD_api_req).          *)
(***************************************************************************)
EXTENDS Integers, Sequences, FiniteSets, TLC

VARIABLES
    now,            \* module global `now` (line 21), as a calendar date
    preload,        \* constructor argument `preload`
    pc,             \* position of the single thread of control
    ctx,            \* who called the fetch in flight: "initial", "preload", "key"
    i,              \* loop variable of pre_load
    images,         \* self.images: bitmaps, each named by the date it was fetched for
    current_image,  \* self.current_image: None or an integer
    render_new,     \* self.render_new
    running,        \* self.running
    current_date,   \* self.current_date, a 'YYYY-MM-DD' string
    events,         \* the rest of the batch pygame.event.get() returned
    screen,         \* window content: the blitted bitmap and the label texts over it
    requests,       \* dates of the metadata requests issued so far, in order
    first,          \* how the constructor's own fetch (line 154) returned
    outcome,        \* how the latest fetch returned: [ctx, cause, exc]
    uncaught,       \* the exception that ended the process, or "none"
    presented       \* whether the latest draw() reached pygame.display.update()

vars == << now, preload, pc, ctx, i, images, current_image, render_new, running,
           current_date, events, screen, requests, first, outcome, uncaught, presented >>

-----------------------------------------------------------------------------
(* Bounds of the model *)

MaxPreload == 2
MaxLeft == 1
MaxBatch == 2
MaxImages == 4

-----------------------------------------------------------------------------
(* Python values *)

\* None is the empty tuple and an integer n is <<n>>, so that None compares
\* unequal to every integer, as in Python.
None == << >>
Some(n) == << n >>
Idx(c) == c[1]

Max(a, b) == IF a >= b THEN a ELSE b
Min(a, b) == IF a <= b THEN a ELSE b

-----------------------------------------------------------------------------
(* Calendar dates: datetime.strftime / strptime / timedelta(days=1) *)

IsLeap(y) == (y % 4 = 0) /\ ((y % 100 # 0) \/ (y % 400 = 0))

DaysInMonth(y, m) ==
    IF m = 2 THEN (IF IsLeap(y) THEN 29 ELSE 28)
    ELSE IF m \in {4, 6, 9, 11} THEN 30 ELSE 31

RECURSIVE DaysBeforeMonth(_, _)
DaysBeforeMonth(y, m) ==
    IF m = 1 THEN 0 ELSE DaysBeforeMonth(y, m - 1) + DaysInMonth(y, m - 1)

\* date.toordinal(): days since 0001-01-01, that day being 1
Ordinal(d) ==
    LET y1 == d.y - 1
    IN  365 * y1 + (y1 \div 4) - (y1 \div 100) + (y1 \div 400)
          + DaysBeforeMonth(d.y, d.m) + d.d

\* date - timedelta(days=1)
MinusOneDay(d) ==
    IF d.d > 1 THEN [y |-> d.y, m |-> d.m, d |-> d.d - 1]
    ELSE IF d.m > 1 THEN [y |-> d.y, m |-> d.m - 1, d |-> DaysInMonth(d.y, d.m - 1)]
    ELSE [y |-> d.y - 1, m |-> 12, d |-> 31]

DigitChars == << "0", "1", "2", "3", "4", "5", "6", "7", "8", "9" >>
Chr(n) == DigitChars[n + 1]
Ord(c) == CHOOSE n \in 0..9 : DigitChars[n + 1] = c

\* strftime('%Y-%m-%d'): zero-padded year, month, day
strftime(d) ==
    << Chr(d.y \div 1000), Chr((d.y \div 100) % 10), Chr((d.y \div 10) % 10), Chr(d.y % 10),
       "-", Chr(d.m \div 10), Chr(d.m % 10),
       "-", Chr(d.d \div 10), Chr(d.d % 10) >>

\* strptime(s, '%Y-%m-%d')
strptime(s) ==
    [ y |-> 1000 * Ord(s[1]) + 100 * Ord(s[2]) + 10 * Ord(s[3]) + Ord(s[4]),
      m |-> 10 * Ord(s[6]) + Ord(s[7]),
      d |-> 10 * Ord(s[9]) + Ord(s[10]) ]

\* lines 208-210 with the decremented date not stored back
PreviousDate_not_stored(s) == strftime(strptime(s))

\* lines 208-210: the date string of the day before the one `s` names
PreviousDate(s) == strftime(MinusOneDay(strptime(s)))

\* The dates the process may be started on: the day after a leap day and
\* the second day of a year.
NowDates ==
    { [y |-> 2024, m |-> 3, d |-> 1],
      [y |-> 2023, m |-> 1, d |-> 2] }

-----------------------------------------------------------------------------
(* The fetch: APOD_api_req and the exceptions it raises *)

\* The steps of APOD_api_req that can fail.
Causes == { "metadata_request", "no_url", "image_download", "decode" }

\* The exception classes a failing step raises: requests.get raises a
\* RequestException (an OSError); data['url'] on a response without that
\* field raises KeyError; Image.open raises an OSError on bytes that are no
\* image, and pygame.image.fromstring raises ValueError on a pixel mode it
\* does not know.
Raises(cause) ==
    CASE cause = "metadata_request" -> { "OSError" }
      [] cause = "no_url"           -> { "KeyError" }
      [] cause = "image_download"   -> { "OSError" }
      [] cause = "decode"           -> { "OSError", "ValueError" }

\* add_API_image catching the wrong class
CaughtByAddAPIImage_KeyError(exc) == exc = "KeyError"

\* add_API_image: `except OSError`
CaughtByAddAPIImage(exc) == exc = "OSError"

\* update: `except KeyError` around the call of the bound action
CaughtByUpdate(exc) == exc = "KeyError"

-----------------------------------------------------------------------------
(* ImageViewer: the cursor arithmetic *)

\* shift_left without its lower clamp
shift_left_cursor_unclamped(cur) ==
    IF cur # None THEN Some(Idx(cur) - 1) ELSE cur

\* shift_left (lines 54-55)
shift_left_cursor(cur) ==
    IF cur # None THEN Some(Max(0, Idx(cur) - 1)) ELSE cur

\* shift_right without its upper clamp
shift_right_cursor_unclamped(cur, imgs) ==
    IF cur # None THEN Some(Idx(cur) + 1) ELSE cur

\* shift_right clamping one index too low
shift_right_cursor_clamped_low(cur, imgs) ==
    IF cur # None THEN Some(Min(Len(imgs) - 2, Idx(cur) + 1)) ELSE cur

\* shift_right (lines 61-62)
shift_right_cursor(cur, imgs) ==
    IF cur # None THEN Some(Min(Len(imgs) - 1, Idx(cur) + 1)) ELSE cur

\* add_image selecting only the very first bitmap
add_image_cursor_first_only(cur) ==
    IF cur = None THEN Some(0) ELSE cur

\* add_image (lines 86-89)
add_image_cursor(cur) ==
    IF cur = None THEN Some(0) ELSE Some(Idx(cur) + 1)

\* add_image putting the new bitmap in front
append_image_in_front(imgs, image) == << image >> \o imgs

\* add_image (line 83): self.images.append(image)
append_image(imgs, image) == Append(imgs, image)

\* load_and_add (line 206): self.current_image == len(self.images) - 1
at_last(cur, imgs) == cur # None /\ Idx(cur) = Len(imgs) - 1

\* pre_load without the reset of line 188
pre_load_cursor_kept(cur, imgs) == cur

\* pre_load (line 188)
pre_load_cursor(cur, imgs) == Some(0)

\* draw (line 111): self.images[self.current_image] is an element of the list
\* (Python counts a negative index from the end)
Subscriptable(cur, imgs) ==
    cur # None /\ Idx(cur) >= -Len(imgs) /\ Idx(cur) < Len(imgs)

Subscript(cur, imgs) ==
    IF Idx(cur) >= 0 THEN imgs[Idx(cur) + 1] ELSE imgs[Len(imgs) + Idx(cur) + 1]

-----------------------------------------------------------------------------
(* The window *)

Blank == [image |-> None, labels |-> {}]

\* draw without the fill of line 110
fill_omitted(scr) == scr

\* root.fill((0, 0, 0))
fill(scr) == Blank

\* draw_label (lines 176-178): text blitted over whatever is on the window
draw_label(scr, text) == [scr EXCEPT !.labels = @ \cup {text}]

\* root.blit(image, (0, 0))
blit(scr, image) == [scr EXCEPT !.image = Some(image)]

-----------------------------------------------------------------------------
(* APODViewer.__init__ (lines 136-155) *)

NoOutcome == [ctx |-> "none", cause |-> "none", exc |-> "none"]

\* The state at line 154: ImageViewer.__init__ has run, the date is today's,
\* 'Loading...' has been drawn, add_API_image is about to be called.
Init ==
    /\ now \in NowDates
    /\ preload \in 0..MaxPreload
    /\ pc = "construct"
    /\ ctx = "none"
    /\ i = 0
    /\ images = << >>
    /\ current_image = None
    /\ render_new = TRUE
    /\ running = TRUE
    /\ current_date = strftime(now)
    /\ events = << >>
    /\ screen = draw_label(Blank, "Loading...")
    /\ requests = << >>
    /\ first = NoOutcome
    /\ outcome = NoOutcome
    /\ uncaught = "none"
    /\ presented = FALSE

\* The record of a fetch that returned from `c` with `cause` and `exc`.
Returned(c, cause, exc) == [ctx |-> c, cause |-> cause, exc |-> exc]

\* Where control goes when add_API_image returns normally.
ReturnTo(c) == IF c = "key" THEN "dispatch" ELSE "pre_load"

\* add_API_image, up to the blocking request of APOD_api_req (line 166):
\* the request is for self.current_date as it is at the call.
call_add_API_image(c, date) ==
    /\ pc' = "fetching"
    /\ ctx' = c
    /\ requests' = Append(requests, date)

\* line 154
initial_load ==
    /\ pc = "construct"
    /\ call_add_API_image("initial", current_date)
    /\ UNCHANGED << now, preload, i, images, current_image, render_new, running,
                    current_date, events, screen, first, outcome, uncaught, presented >>

\* add_API_image, line 194: APOD_api_req returned a bitmap; add_image of its
\* scaled copy (lines 83-89).
fetch_ok ==
    /\ pc = "fetching"
    /\ images' = append_image(images, current_date)
    /\ render_new' = TRUE
    /\ current_image' = add_image_cursor(current_image)
    /\ outcome' = Returned(ctx, "ok", "none")
    /\ first' = IF ctx = "initial" THEN outcome' ELSE first
    /\ pc' = ReturnTo(ctx)
    /\ ctx' = "none"
    /\ UNCHANGED << now, preload, i, running, current_date, events, screen,
                    requests, uncaught, presented >>

\* APOD_api_req raised `exc` at the step `cause`: add_API_image catches an
\* OSError (lines 195-197); anything else leaves add_API_image and
\* load_and_add, and update catches a KeyError (lines 101-104); what nobody
\* catches ends the process.
fetch_raises(cause, exc) ==
    /\ pc = "fetching"
    /\ outcome' = Returned(ctx, cause, exc)
    /\ first' = IF ctx = "initial" THEN outcome' ELSE first
    /\ ctx' = "none"
    /\ IF CaughtByAddAPIImage(exc)
         THEN /\ screen' = draw_label(fill(screen), "Error...")
              /\ pc' = ReturnTo(ctx)
              /\ UNCHANGED uncaught
         ELSE IF ctx = "key" /\ CaughtByUpdate(exc)
         THEN /\ pc' = "dispatch"
              /\ UNCHANGED << screen, uncaught >>
         ELSE /\ pc' = "crashed"
              /\ uncaught' = exc
              /\ UNCHANGED screen
    /\ UNCHANGED << now, preload, i, images, current_image, render_new, running,
                    current_date, events, requests, presented >>

fetch_fails == \E cause \in Causes : \E exc \in Raises(cause) : fetch_raises(cause, exc)

\* load_and_add (lines 206-213), called from `c` ("preload" or "key")
load_and_add(c) ==
    IF at_last(current_image, images)
      THEN /\ screen' = draw_label(screen, "Loading...")
           /\ current_date' = PreviousDate(current_date)
           /\ call_add_API_image(c, current_date')
           /\ UNCHANGED << current_image, render_new >>
      ELSE /\ current_image' = shift_right_cursor(current_image, images)
           /\ render_new' = IF current_image # None THEN TRUE ELSE render_new
           /\ UNCHANGED << pc, ctx, requests, screen, current_date >>

\* pre_load (lines 186-187): one pass of the loop
pre_load_step ==
    /\ pc = "pre_load"
    /\ i < preload
    /\ i' = i + 1
    /\ load_and_add("preload")
    /\ UNCHANGED << now, preload, images, running, events, first, outcome, uncaught, presented >>

\* pre_load (line 188), and the constructor returns: run() enters its loop
pre_load_end ==
    /\ pc = "pre_load"
    /\ i >= preload
    /\ current_image' = pre_load_cursor(current_image, images)
    /\ pc' = "update"
    /\ UNCHANGED << now, preload, ctx, i, images, render_new, running, current_date,
                    events, screen, requests, first, outcome, uncaught, presented >>

-----------------------------------------------------------------------------
(* The run loop (lines 91-122) *)

EventKinds == { "QUIT", "K_LEFT", "K_RIGHT", "K_OTHER" }

Batches == UNION { [1..n -> EventKinds] : n \in 0..MaxBatch }

\* The model stops polling K_LEFT once this many requests could be issued.
MaxRequests == MaxPreload + 1 + MaxLeft

Lefts(batch) == Cardinality({ k \in DOMAIN batch : batch[k] = "K_LEFT" })

\* update (lines 94-96): pygame.event.get() returns the pending events
update ==
    /\ pc = "update"
    /\ \E batch \in Batches :
         /\ Len(requests) + Lefts(batch) <= MaxRequests
         /\ events' = batch
    /\ pc' = "dispatch"
    /\ UNCHANGED << now, preload, ctx, i, images, current_image, render_new, running,
                    current_date, screen, requests, first, outcome, uncaught, presented >>

\* line 98-99
dispatch_quit ==
    /\ pc = "dispatch" /\ events # << >> /\ Head(events) = "QUIT"
    /\ events' = Tail(events)
    /\ running' = FALSE
    /\ UNCHANGED << now, preload, pc, ctx, i, images, current_image, render_new,
                    current_date, screen, requests, first, outcome, uncaught, presented >>

\* lines 100-102 with KEY_MAP[K_RIGHT] = shift_left (line 149)
dispatch_right ==
    /\ pc = "dispatch" /\ events # << >> /\ Head(events) = "K_RIGHT"
    /\ events' = Tail(events)
    /\ current_image' = shift_left_cursor(current_image)
    /\ render_new' = IF current_image # None THEN TRUE ELSE render_new
    /\ UNCHANGED << now, preload, pc, ctx, i, images, running, current_date, screen,
                    requests, first, outcome, uncaught, presented >>

\* lines 100-102 with KEY_MAP[K_LEFT] = load_and_add (line 150)
dispatch_left ==
    /\ pc = "dispatch" /\ events # << >> /\ Head(events) = "K_LEFT"
    /\ events' = Tail(events)
    /\ load_and_add("key")
    /\ UNCHANGED << now, preload, i, images, running, first, outcome, uncaught, presented >>

\* lines 100-104: a key KEY_MAP does not hold raises KeyError, which is passed
dispatch_other ==
    /\ pc = "dispatch" /\ events # << >> /\ Head(events) = "K_OTHER"
    /\ events' = Tail(events)
    /\ UNCHANGED << now, preload, pc, ctx, i, images, current_image, render_new, running,
                    current_date, screen, requests, first, outcome, uncaught, presented >>

\* run (line 118): the loop goes on while self.running
AfterDraw == IF running THEN "update" ELSE "quit"

\* draw (lines 109-113), once update has gone through its events
draw ==
    /\ pc = "dispatch" /\ events = << >>
    /\ IF render_new
         THEN IF Subscriptable(current_image, images)
                THEN /\ screen' = blit(fill(screen), Subscript(current_image, images))
                     /\ render_new' = FALSE
                     /\ presented' = TRUE
                     /\ pc' = AfterDraw
                     /\ UNCHANGED uncaught
                ELSE /\ screen' = fill(screen)
                     /\ presented' = FALSE
                     /\ pc' = "crashed"
                     /\ uncaught' = IF current_image = None THEN "TypeError" ELSE "IndexError"
                     /\ UNCHANGED render_new
         ELSE /\ pc' = AfterDraw
              /\ presented' = FALSE
              /\ UNCHANGED << screen, render_new, uncaught >>
    /\ UNCHANGED << now, preload, ctx, i, images, current_image, running, current_date,
                    events, requests, first, outcome >>

\* run (lines 121-122): pygame.quit(); exit()
quit ==
    /\ pc = "quit"
    /\ pc' = "exited"
    /\ UNCHANGED << now, preload, ctx, i, images, current_image, render_new, running,
                    current_date, events, screen, requests, first, outcome, uncaught, presented >>

Next ==
    \/ initial_load
    \/ fetch_ok
    \/ fetch_fails
    \/ pre_load_step
    \/ pre_load_end
    \/ update
    \/ dispatch_quit
    \/ dispatch_right
    \/ dispatch_left
    \/ dispatch_other
    \/ draw
    \/ quit

Spec == Init /\ [][Next]_vars

-----------------------------------------------------------------------------
(* A bare ImageViewer, its methods called directly (lines 30-89) *)

\* The bitmaps handed to add_image.
Bitmaps == { strftime(d) : d \in NowDates }

\* ImageViewer.__init__ (lines 36-42)
InitGV ==
    /\ now \in NowDates
    /\ preload = 0
    /\ pc = "generic"
    /\ ctx = "none"
    /\ i = 0
    /\ images = << >>
    /\ current_image = None
    /\ render_new = TRUE
    /\ running = TRUE
    /\ current_date = strftime(now)
    /\ events = << >>
    /\ screen = Blank
    /\ requests = << >>
    /\ first = NoOutcome
    /\ outcome = NoOutcome
    /\ uncaught = "none"
    /\ presented = FALSE

\* add_image (lines 83-89)
add_image(image) ==
    /\ pc = "generic"
    /\ Len(images) < MaxImages
    /\ images' = append_image(images, image)
    /\ render_new' = TRUE
    /\ current_image' = add_image_cursor(current_image)
    /\ UNCHANGED << now, preload, pc, ctx, i, running, current_date, events, screen,
                    requests, first, outcome, uncaught, presented >>

\* shift_left (lines 54-56)
shift_left ==
    /\ pc = "generic"
    /\ current_image' = shift_left_cursor(current_image)
    /\ render_new' = IF current_image # None THEN TRUE ELSE render_new
    /\ UNCHANGED << now, preload, pc, ctx, i, images, running, current_date, events,
                    screen, requests, first, outcome, uncaught, presented >>

\* shift_right (lines 61-63)
shift_right ==
    /\ pc = "generic"
    /\ current_image' = shift_right_cursor(current_image, images)
    /\ render_new' = IF current_image # None THEN TRUE ELSE render_new
    /\ UNCHANGED << now, preload, pc, ctx, i, images, running, current_date, events,
                    screen, requests, first, outcome, uncaught, presented >>

add_some_image == \E image \in Bitmaps : add_image(image)

NextGV ==
    \/ add_some_image
    \/ shift_left
    \/ shift_right

SpecGV == InitGV /\ [][NextGV]_vars

-----------------------------------------------------------------------------
(* Vocabulary of the properties *)

\* The constructor has returned and the process has not ended abnormally.
Constructed ==
    \/ pc \in { "update", "dispatch", "quit", "exited" }
    \/ pc = "fetching" /\ ctx = "key"

\* The step in which the constructor returns (pre_load's last line).
ConstructionEnds == pc = "pre_load" /\ pc' = "update"

\* The step in which a fetch called from `c` returns, with or without a bitmap.
FetchReturns(c) == pc = "fetching" /\ ctx = c /\ pc' # "fetching"

\* The step in which update hands a K_LEFT key press to load_and_add.
LeftPressed ==
    /\ pc = "dispatch" /\ events # << >> /\ Head(events) = "K_LEFT"
    /\ events' = Tail(events)

\* Days from the current request date back to today, by calendar ordinals.
DaysBack(date) == Ordinal(now) - Ordinal(strptime(date))

\* The window after a caught fetch error: black, with 'Error...' alone.
ErrorScreen == [image |-> None, labels |-> { "Error..." }]

Last(seq) == seq[Len(seq)]

-----------------------------------------------------------------------------
(* C1 *)

\* C1: in every state from the end of construction on, the Cursor is unset
\* exactly when the Image Sequence is empty, and otherwise lies in
\* 0 .. length-1.
C1_CursorMatchesSequence ==
    Constructed =>
        /\ (current_image = None) <=> (images = << >>)
        /\ current_image # None => Idx(current_image) \in 0..(Len(images) - 1)

-----------------------------------------------------------------------------
(* C2 *)

\* C2: if the constructor's fetch fails with a network error (an OSError),
\* construction ends with an empty sequence, the Cursor unset and 'Error...'
\* as the only text on the window, and with no further fetch issued the
\* process does not crash.
C2_FirstFetchFailureSurvived ==
    /\ [][ (ConstructionEnds /\ first.exc = "OSError") =>
             /\ images' = << >>
             /\ current_image' = None
             /\ screen'.labels = { "Error..." } ]_vars
    /\ [](first.exc = "OSError" /\ Len(requests) = 1 => pc # "crashed")

-----------------------------------------------------------------------------
(* C3 *)

\* C3 as stated: every fetch error of a fetch triggered by paging leaves the
\* run loop and ends the process.
C3_PagingErrorTerminates ==
    [][ (FetchReturns("key") /\ outcome'.cause \in Causes) => pc' = "crashed" ]_vars

\* C3 as amended: a paging fetch that raises an OSError is caught as on the
\* initial load (window cleared, 'Error...' shown, sequence, Cursor and the
\* already decremented date kept, loop goes on); one that raises KeyError is
\* passed over by update with nothing shown; only another exception ends
\* the process.
C3_PagingErrorHandled ==
    [][ (FetchReturns("key") /\ outcome'.cause \in Causes) =>
          /\ UNCHANGED << images, current_image, current_date, render_new, events >>
          /\ IF outcome'.exc = "OSError"
               THEN pc' = "dispatch" /\ screen' = ErrorScreen /\ uncaught' = "none"
               ELSE IF outcome'.exc = "KeyError"
               THEN pc' = "dispatch" /\ screen' = screen /\ uncaught' = "none"
               ELSE pc' = "crashed" /\ uncaught' = outcome'.exc ]_vars

\* A paging fetch failed with an OSError and the loop is still dispatching.
C3_Witness ==
    /\ outcome.ctx = "key" /\ outcome.exc = "OSError"
    /\ pc = "dispatch" /\ screen = ErrorScreen /\ images # << >>

-----------------------------------------------------------------------------
(* C4 *)

\* C4: whichever step of the fetch fails, in a given calling context the
\* viewer ends as it does for a failed metadata request: the error is
\* caught, 'Error...' is shown, nothing else changes and the caller goes on.
C4_OneErrorKind ==
    [][ (\E c \in { "initial", "preload", "key" } :
            FetchReturns(c) /\ outcome'.cause \in Causes) =>
          /\ pc' = ReturnTo(ctx)
          /\ screen' = ErrorScreen
          /\ UNCHANGED << images, current_image, current_date, render_new >> ]_vars

-----------------------------------------------------------------------------
(* C5 *)

\* C5: a K_LEFT press with the Cursor at the last index of a non-empty
\* sequence issues exactly one request, for the day before the current
\* date; no request is added while it is in flight; and when it returns a
\* bitmap the sequence is one longer and the Cursor is its last index.
C5_PageBackFetchesOneOlderDay ==
    /\ [][ (LeftPressed /\ images # << >> /\ current_image = Some(Len(images) - 1)) =>
             /\ pc' = "fetching"
             /\ Len(requests') = Len(requests) + 1
             /\ SubSeq(requests', 1, Len(requests)) = requests
             /\ DaysBack(Last(requests')) = DaysBack(current_date) + 1 ]_vars
    /\ [][ FetchReturns("key") => requests' = requests ]_vars
    /\ [][ (FetchReturns("key") /\ outcome'.cause = "ok" /\ images # << >>) =>
             /\ Len(images') = Len(images) + 1
             /\ SubSeq(images', 1, Len(images)) = images
             /\ current_image' = Some(Len(images') - 1) ]_vars

\* A paging fetch has returned a bitmap onto a non-empty sequence.
C5_Witness ==
    /\ outcome.ctx = "key" /\ outcome.cause = "ok"
    /\ pc = "dispatch"
    /\ Len(images) >= 2
    /\ current_image = Some(Len(images) - 1)
    /\ DaysBack(Last(requests)) = Len(requests) - 1

-----------------------------------------------------------------------------
(* C6 *)

\* C6: a K_LEFT press with the Cursor set and strictly below the last index
\* issues no request, leaves the sequence and the date alone and moves the
\* Cursor up by one.
C6_PageBackWithinLoaded ==
    [][ (LeftPressed /\ current_image # None
           /\ Idx(current_image) < Len(images) - 1) =>
          /\ requests' = requests
          /\ images' = images
          /\ current_date' = current_date
          /\ pc' = "dispatch"
          /\ current_image' = Some(Idx(current_image) + 1) ]_vars

\* After preload(2) left the Cursor at 0 of three bitmaps, the Cursor is at 1
\* and nothing further was requested: K_LEFT has shifted it.
C6_Witness ==
    /\ preload = 2 /\ pc = "dispatch"
    /\ Len(images) = 3 /\ Len(requests) = 3
    /\ current_image = Some(1)
    /\ DaysBack(current_date) = 2

-----------------------------------------------------------------------------
(* C7 *)

\* The older-image fetches that have returned a bitmap: every bitmap of the
\* sequence but the one of the constructor's own fetch.
OlderFetchesSucceeded == Len(images) - (IF first.cause = "ok" THEN 1 ELSE 0)

\* The older-image fetches issued: every request but the constructor's own.
OlderFetchesIssued == IF requests = << >> THEN 0 ELSE Len(requests) - 1

\* C7 as stated: while no fetch is in flight, the days from the current date
\* back to today are the older-image fetches that succeeded.
C7_DatePerSuccessfulFetch ==
    pc # "fetching" => DaysBack(current_date) = OlderFetchesSucceeded

\* C7 as amended: the current date never moves forward, and the days from it
\* back to today are the older-image fetches issued, failed ones included
\* (so initially, and so after every step that changes the date or issues a
\* request).
C7_DatePerIssuedFetch ==
    /\ DaysBack(current_date) = OlderFetchesIssued
    /\ [][ (current_date' # current_date \/ requests' # requests) =>
             /\ DaysBack(current_date') >= DaysBack(current_date)
             /\ DaysBack(current_date') = OlderFetchesIssued' ]_vars

\* An older-image fetch has failed and its day stays counted.
C7_Witness ==
    /\ outcome.ctx \in { "preload", "key" } /\ outcome.cause \in Causes
    /\ pc # "fetching"
    /\ DaysBack(current_date) = OlderFetchesIssued
    /\ DaysBack(current_date) > OlderFetchesSucceeded

-----------------------------------------------------------------------------
(* C8 *)

\* C8: when every fetch of the constructor returns a bitmap, construction
\* with preload = n ends with n+1 bitmaps, the Cursor at 0 and the current
\* date n days back.
C8_PreloadAllSucceed ==
    [][ (ConstructionEnds /\ Len(images) = Len(requests)) =>
          /\ Len(images') = preload + 1
          /\ current_image' = Some(0)
          /\ DaysBack(current_date') = preload ]_vars

\* The constructor has just returned from preload(2), nothing drawn yet.
C8_Witness ==
    /\ pc = "update" /\ preload = 2 /\ screen.image = None
    /\ Len(images) = 3 /\ Len(requests) = 3
    /\ current_image = Some(0)
    /\ DaysBack(current_date) = 2

-----------------------------------------------------------------------------
(* C9 *)

\* C9: in the bare ImageViewer, under any calls of shift_left, shift_right
\* and add_image, the Cursor is unset while the sequence is empty and within
\* 0 .. length-1 once it is not.
C9_GenericCursorInRange ==
    pc = "generic" =>
        IF images = << >>
          THEN current_image = None
          ELSE current_image # None /\ Idx(current_image) \in 0..(Len(images) - 1)

\* Shifts have moved the Cursor off the newest of several bitmaps.
C9_Witness ==
    /\ pc = "generic" /\ Len(images) >= 3
    /\ current_image = Some(1)

-----------------------------------------------------------------------------
(* C10 *)

\* C10: in the bare ImageViewer, whenever add_image appends a bitmap the
\* Cursor is afterwards the last index of the grown sequence.
C10_AppendSelectsNewest ==
    [][ (pc = "generic" /\ Len(images') = Len(images) + 1) =>
          current_image' = Some(Len(images') - 1) ]_vars

-----------------------------------------------------------------------------
(* C11 *)

\* The step in which run() calls draw.
DrawCalled == pc = "dispatch" /\ events = << >> /\ pc' # "dispatch"

\* C11: a call of draw presents a frame exactly when Render-Pending was set
\* before it, touches nothing on the window when it was not, and leaves
\* Render-Pending cleared; so the second of two calls in a row presents
\* nothing.
C11_RedrawGatedByFlag ==
    [][ DrawCalled =>
          /\ presented' = render_new
          /\ render_new' = FALSE
          /\ ~render_new => screen' = screen ]_vars

-----------------------------------------------------------------------------
(* C12 *)

\* C12: across every step the sequence keeps what it holds, in place; it
\* grows by one bitmap at a time, at its end, and the bitmap added is the one
\* fetched for the latest request.
C12_SequenceAppendOnly ==
    [][ /\ Len(images') >= Len(images)
        /\ SubSeq(images', 1, Len(images)) = images
        /\ Len(images') > Len(images) =>
             /\ Len(images') = Len(images) + 1
             /\ images'[Len(images')] = Last(requests) ]_vars

\* Three bitmaps are held, and the latest paging fetch failed over them.
C12_Witness ==
    /\ Len(images) >= 3
    /\ outcome.ctx = "key" /\ outcome.cause \in Causes
    /\ pc = "dispatch"

-----------------------------------------------------------------------------
(* C13 *)

\* The calendar ordinal of the date the k-th bitmap was fetched for.
DateOf(k) == Ordinal(strptime(images[k]))

\* C13: each bitmap of the sequence was fetched for a date strictly older
\* than the one before it, and no two for the same date.
C13_ProgressivelyOlder ==
    /\ \A k \in 1..(Len(images) - 1) : DateOf(k + 1) < DateOf(k)
    /\ \A j, k \in 1..Len(images) : j # k => images[j] # images[k]

\* Three bitmaps reaching back over the end of a year.
C13_Witness ==
    /\ Len(images) >= 3
    /\ strptime(images[1]).y > strptime(images[3]).y

-----------------------------------------------------------------------------
(* C14 *)

\* The two ways the spec lets a fetch cycle end.
Appended == Len(images') = Len(images) + 1 /\ screen' = screen
ErrorShown == images' = images /\ screen' = ErrorScreen

\* C14: a fetch starts with 'Loading...' on the window; while it is in flight
\* nothing else is requested and no event is dispatched; and it ends in
\* exactly one of Appended and ErrorShown, with control back at its caller.
C14_FetchCycle ==
    /\ [][ (pc # "fetching" /\ pc' = "fetching") =>
             /\ "Loading..." \in screen'.labels
             /\ Len(requests') = Len(requests) + 1 ]_vars
    /\ [][ pc = "fetching" =>
             /\ requests' = requests
             /\ events' = events
             /\ pc' = ReturnTo(ctx)
             /\ Appended # ErrorShown ]_vars

-----------------------------------------------------------------------------
(* C15 *)

\* The step in which update hands a K_RIGHT key press to its bound action.
RightPressed ==
    /\ pc = "dispatch" /\ events # << >> /\ Head(events) = "K_RIGHT"
    /\ events' = Tail(events)

\* C15: a K_RIGHT press issues no request, leaves the sequence and the date
\* alone, and moves a set Cursor one down, stopping at 0.
C15_RightKeyShiftsOnly ==
    [][ RightPressed =>
          /\ requests' = requests
          /\ images' = images
          /\ current_date' = current_date
          /\ pc' = "dispatch"
          /\ current_image = None => current_image' = None
          /\ current_image # None =>
               current_image' =
                 IF Idx(current_image) >= 1 THEN Some(Idx(current_image) - 1) ELSE Some(0) ]_vars

\* Without preload, a paging fetch put the Cursor on the second bitmap and
\* it is on the first again: K_RIGHT has moved it.
C15_Witness ==
    /\ preload = 0 /\ pc = "dispatch"
    /\ Len(images) = 2 /\ Len(requests) = 2
    /\ current_image = Some(0)

-----------------------------------------------------------------------------
(* C16 *)

\* The step in which update handles a window-close event.
QuitDispatched ==
    /\ pc = "dispatch" /\ events # << >> /\ Head(events) = "QUIT"
    /\ events' = Tail(events)

\* C16: a window-close event clears running; from then on running stays
\* cleared, update is never entered again, and the process does not end
\* otherwise than by leaving the loop (the draw after the batch leads to
\* pygame.quit()).
C16_CloseEndsLoop ==
    /\ [][ QuitDispatched => running' = FALSE ]_vars
    /\ [][ ~running =>
             /\ ~running'
             /\ pc' \notin { "update", "crashed" }
             /\ DrawCalled => pc' = "quit" ]_vars

-----------------------------------------------------------------------------
(* C17 *)

\* C17: with an empty sequence and the Cursor unset a K_LEFT press requests
\* nothing and changes neither sequence, Cursor nor date; and once the
\* constructor's fetch has failed with preload = 0, the sequence stays empty
\* whatever keys are pressed.
C17_EmptyViewerStaysEmpty ==
    /\ [][ (LeftPressed /\ images = << >> /\ current_image = None) =>
             /\ pc' = "dispatch"
             /\ UNCHANGED << requests, images, current_image, current_date >> ]_vars
    /\ [][ (Constructed /\ preload = 0 /\ first.cause \in Causes /\ images = << >>) =>
             /\ images' = << >>
             /\ requests' = requests ]_vars

-----------------------------------------------------------------------------
(* C18 *)

\* run() is about to call update, nothing is waiting to be rendered and the
\* sequence holds a bitmap.
AtPollIdle == pc = "update" /\ ~render_new /\ images # << >>

\* The window shows `labels` over the bitmap at the Cursor.
CursorBitmapUnder(labels) ==
    /\ Subscriptable(current_image, images)
    /\ screen = [image |-> Some(Subscript(current_image, images)), labels |-> labels]

\* C18 as stated: at the poll step with nothing to render, the window is the
\* bitmap at the Cursor with no status text over it.
C18_WindowShowsCursorBitmap == AtPollIdle => CursorBitmapUnder({})

\* C18 as amended: at the poll step with nothing to render, the window is
\* the bitmap at the Cursor with no status text, unless the latest paging
\* fetch failed and nothing asked for a render since: after an OSError the
\* window is black under 'Error...', after a KeyError 'Loading...' stays
\* over what was there.
C18_WindowAfterFailedFetch ==
    AtPollIdle =>
        \/ CursorBitmapUnder({})
        \/ /\ outcome.ctx = "key" /\ outcome.exc = "OSError"
           /\ screen = ErrorScreen
        \/ /\ outcome.ctx = "key" /\ outcome.exc = "KeyError"
           /\ \/ CursorBitmapUnder({ "Loading..." })
              \/ screen = [image |-> None, labels |-> { "Error...", "Loading..." }]

\* Back at the poll step after a paging fetch that failed: the window is
\* black under 'Error...', no bitmap redrawn.
C18_Witness ==
    /\ AtPollIdle
    /\ outcome.ctx = "key" /\ outcome.exc = "OSError"
    /\ screen = ErrorScreen

=============================================================================
